---- MODULE Spec2Model ----
(***************************************************************************)
(* Model of the calendar server's date/timezone core                       *)
(* (src/calendar/calendar_server.py): validate_gmt_timezone and            *)
(* parse_relative_date.  Python strings are sequences of one-character     *)
(* strings; a datetime is a record of its fields with "off" the UTC offset *)
(* in hours and "aware" false for a naive datetime.  A call is one atomic  *)
(* step that records its arguments and its outcome; Return hands control   *)
(* back to the caller.  The tools built on them, create_event and          *)
(* list_events, run under SpecEvents: frame holds the running tool's       *)
(* position and locals, calendar what it has asked of the Google calendar. *)
(***************************************************************************)
EXTENDS Integers, Sequences, FiniteSets, TLC

VARIABLES op, args, ret, frame, calendar

vars == <<op, args, ret, frame, calendar>>

(***************************************************************************)
(* Bounds of the model and constants of the program.                       *)
(***************************************************************************)
\* longest tail of characters enumerated after "GMT" and the sign
MaxTail == 2
\* reference years run from 2024 to 2024 + MaxRefYears
MaxRefYears == 1
\* len(timezone_str) < 5
MinZoneLen == 5
\* offset < 0 or offset > 12
MinOffset == 0
MaxOffset == 12
\* (target_date - base_time).days < 7
TooCloseDays == 7
\* duration_minutes: int = 60
DefaultDuration == 60
\* system UTC offsets, in minutes, run from UTC-12:00 to UTC+14:00
MaxBehindUtc == 720
MaxAheadOfUtc == 840

(***************************************************************************)
(* Python str primitives on character sequences.                           *)
(***************************************************************************)
LowerCs == <<"a","b","c","d","e","f","g","h","i","j","k","l","m",
             "n","o","p","q","r","s","t","u","v","w","x","y","z">>
UpperCs == <<"A","B","C","D","E","F","G","H","I","J","K","L","M",
             "N","O","P","Q","R","S","T","U","V","W","X","Y","Z">>
DigitCs == <<"0","1","2","3","4","5","6","7","8","9">>

IsDigit(c) == \E i \in 1..10 : DigitCs[i] = c
DigitVal(c) == (CHOOSE i \in 1..10 : DigitCs[i] = c) - 1
IsSpace(c) == c = " "

UpperC(c) == IF \E i \in 1..26 : LowerCs[i] = c
             THEN UpperCs[CHOOSE i \in 1..26 : LowerCs[i] = c] ELSE c
LowerC(c) == IF \E i \in 1..26 : UpperCs[i] = c
             THEN LowerCs[CHOOSE i \in 1..26 : UpperCs[i] = c] ELSE c

\* str.upper() / str.lower()
Upper(s) == [i \in 1..Len(s) |-> UpperC(s[i])]
Lower(s) == [i \in 1..Len(s) |-> LowerC(s[i])]

\* s[a:] with a 0-based, as Python slices
SliceFrom(s, a) == IF a >= Len(s) THEN <<>> ELSE SubSeq(s, a + 1, Len(s))

\* str.strip(): leading and trailing whitespace removed
Strip(s) ==
  LET idx == {i \in 1..Len(s) : ~IsSpace(s[i])}
  IN IF idx = {} THEN <<>>
     ELSE LET lo == CHOOSE i \in idx : \A j \in idx : i <= j
              hi == CHOOSE i \in idx : \A j \in idx : i >= j
          IN SubSeq(s, lo, hi)

\* str.startswith(p)
StartsWith(s, p) == Len(s) >= Len(p) /\ SubSeq(s, 1, Len(p)) = p

(***************************************************************************)
(* float(offset_str) followed by int(...): the grammar Python's float()    *)
(* accepts (surrounding whitespace, one optional sign, digits that may be  *)
(* grouped by single underscores, an optional fraction, an optional        *)
(* exponent, or inf / infinity / nan), and the truncation int() performs.  *)
(***************************************************************************)
\* digit ("_"? digit)*
IsDigitPart(s) ==
  /\ Len(s) >= 1
  /\ IsDigit(s[1]) /\ IsDigit(s[Len(s)])
  /\ \A i \in 1..Len(s) : IsDigit(s[i]) \/ s[i] = "_"
  /\ \A i \in 1..(Len(s) - 1) : ~(s[i] = "_" /\ s[i + 1] = "_")

Digits(s) == SelectSeq(s, IsDigit)

RECURSIVE DigitsValue(_)
DigitsValue(s) == IF s = <<>> THEN 0
                  ELSE 10 * DigitsValue(SubSeq(s, 1, Len(s) - 1)) + DigitVal(s[Len(s)])

RECURSIVE Pow10(_)
Pow10(n) == IF n <= 0 THEN 1 ELSE 10 * Pow10(n - 1)

IndexOf(s, c) == IF \E i \in 1..Len(s) : s[i] = c
                 THEN CHOOSE i \in 1..Len(s) : s[i] = c /\ \A j \in 1..(i - 1) : s[j] # c
                 ELSE 0

HasSign(s) == Len(s) >= 1 /\ s[1] \in {"+", "-"}
Unsigned(s) == IF HasSign(s) THEN SliceFrom(s, 1) ELSE s

\* mantissa: digitpart ["." [digitpart]] | "." digitpart
MantissaOk(m) ==
  LET dot == IndexOf(m, ".")
      ip == IF dot = 0 THEN m ELSE SubSeq(m, 1, dot - 1)
      fp == IF dot = 0 THEN <<>> ELSE SliceFrom(m, dot)
  IN IF dot = 0 THEN IsDigitPart(m)
     ELSE /\ (ip = <<>> \/ IsDigitPart(ip))
          /\ (fp = <<>> \/ IsDigitPart(fp))
          /\ ~(ip = <<>> /\ fp = <<>>)

\* exponent: [sign] digitpart
ExponentOk(e) == IsDigitPart(Unsigned(e))

\* the value of a number that fits the grammar, truncated toward zero; a
\* magnitude of 100 or more is reported as 100 (it is only compared to 12)
TruncMagnitude(u) ==
  LET epos == IndexOf(u, "E")
      m == IF epos = 0 THEN u ELSE SubSeq(u, 1, epos - 1)
      e == IF epos = 0 THEN <<>> ELSE SliceFrom(u, epos)
      dot == IndexOf(m, ".")
      ip == Digits(IF dot = 0 THEN m ELSE SubSeq(m, 1, dot - 1))
      fp == Digits(IF dot = 0 THEN <<>> ELSE SliceFrom(m, dot))
      mant == DigitsValue(ip \o fp)
      ev == IF e = <<>> THEN 0
            ELSE (IF e[1] = "-" THEN -1 ELSE 1) * DigitsValue(Digits(Unsigned(e)))
      scale == ev - Len(fp)
  IN IF mant = 0 THEN 0
     ELSE IF scale >= 2 THEN 100
     ELSE IF scale >= 0 THEN (IF mant * Pow10(scale) > 100 THEN 100 ELSE mant * Pow10(scale))
     ELSE IF -scale > Len(ip \o fp) THEN 0
     ELSE (IF mant \div Pow10(-scale) > 100 THEN 100 ELSE mant \div Pow10(-scale))

S_INF == <<"I","N","F">>
S_INFINITY == <<"I","N","F","I","N","I","T","Y">>
S_NAN == <<"N","A","N">>

\* int(float(s)) for an upper-cased s: the integer, or the exception raised
IntOfFloat(s) ==
  LET t == Strip(s)
      u == Unsigned(t)
      epos == IndexOf(u, "E")
      m == IF epos = 0 THEN u ELSE SubSeq(u, 1, epos - 1)
      e == IF epos = 0 THEN <<>> ELSE SliceFrom(u, epos)
      neg == HasSign(t) /\ t[1] = "-"
  IN IF u \in {S_INF, S_INFINITY} THEN [ok |-> FALSE, exc |-> "OverflowError", val |-> 0]
     ELSE IF u = S_NAN THEN [ok |-> FALSE, exc |-> "ValueError", val |-> 0]
     ELSE IF MantissaOk(m) /\ (epos = 0 \/ ExponentOk(e))
          THEN [ok |-> TRUE, exc |-> "",
                val |-> IF neg THEN -TruncMagnitude(u) ELSE TruncMagnitude(u)]
     ELSE [ok |-> FALSE, exc |-> "ValueError", val |-> 0]

(***************************************************************************)
(* validate_gmt_timezone.  A Python argument is [t, s]: t = "str" with its *)
(* characters s, "none" for None, "other" for a non-string object.         *)
(* The outcome is the returned string or the exception with its message:   *)
(*   InvalidFormat  "Timezone must be provided in GMT+-X format ..."       *)
(*   MissingPrefix  "Timezone must start with 'GMT'"                       *)
(*   TooShort       "Invalid GMT timezone format"                          *)
(*   MissingSign    "Timezone must include + or - after GMT"               *)
(*   OffsetOutOfRange "Timezone offset must be between 0 and 12"           *)
(*   GenericFormat  "Invalid GMT timezone format. Must be in format ..."   *)
(***************************************************************************)
PyStr(s) == [t |-> "str", s |-> s]
PyNone == [t |-> "none", s |-> <<>>]
PyOther == [t |-> "other", s |-> <<>>]

Raise(exc, kind) == [ok |-> FALSE, exc |-> exc, kind |-> kind, sign |-> "", mag |-> 0]
\* f"Etc/GMT{reversed_sign}{offset}"
EtcGmt(sign, mag) == [ok |-> TRUE, exc |-> "", kind |-> "", sign |-> sign, mag |-> mag]

S_GMT == <<"G","M","T">>

\* mutant: the sign copied instead of reversed
KeptSign(sign) == sign

\* reversed_sign = '-' if sign == '+' else '+'
ReversedSign(sign) == IF sign = "+" THEN "-" ELSE "+"

\* the handler of the try block: except (IndexError, ValueError) as e
ExceptHandler(kind) ==
  IF kind = "TooShort" THEN Raise("ValueError", "TooShort")
  ELSE Raise("ValueError", "GenericFormat")

\* the try block from the range check on, given what int(float(...)) gave
CheckOffset(offset, sign) ==
  IF ~offset.ok
  THEN (IF offset.exc = "ValueError" THEN ExceptHandler("NotANumber")
        ELSE Raise(offset.exc, "Overflow"))
  ELSE IF offset.val < MinOffset \/ offset.val > MaxOffset
       THEN ExceptHandler("OffsetOutOfRange")
  ELSE EtcGmt(ReversedSign(sign), offset.val)

\* the body of the try block, on the upper-cased and stripped string
TryBody(s) ==
  IF Len(s) < MinZoneLen THEN ExceptHandler("TooShort")
  ELSE IF s[4] \notin {"+", "-"} THEN ExceptHandler("MissingSign")
  ELSE CheckOffset(IntOfFloat(Strip(SliceFrom(s, 4))), s[4])

\* the function on the upper-cased and stripped string
CheckPrefix(s) ==
  IF ~StartsWith(s, S_GMT) THEN Raise("ValueError", "MissingPrefix")
  ELSE TryBody(s)

validate_gmt_timezone(tz) ==
  IF tz.t # "str" \/ tz.s = <<>> THEN Raise("ValueError", "InvalidFormat")
  ELSE CheckPrefix(Strip(Upper(tz.s)))

\* the characters of the string returned: "Etc/GMT" + reversed_sign + offset
EtcString(zone) ==
  <<"E","t","c","/","G","M","T", zone.sign>> \o
  (IF zone.mag >= 10 THEN <<DigitCs[(zone.mag \div 10) + 1], DigitCs[(zone.mag % 10) + 1]>>
   ELSE <<DigitCs[zone.mag + 1]>>)

(***************************************************************************)
(* Calendar arithmetic of datetime, timedelta and relativedelta.  A        *)
(* datetime is [y, mo, d, h, mi, s, us, aware, off]: off is the UTC offset *)
(* in hours of an aware datetime (tzinfo set), 0 when naive.               *)
(***************************************************************************)
IsLeap(y) == (y % 4 = 0) /\ ((y % 100 # 0) \/ (y % 400 = 0))

DaysInMonth(y, m) ==
  IF m = 2 THEN (IF IsLeap(y) THEN 29 ELSE 28)
  ELSE IF m \in {4, 6, 9, 11} THEN 30 ELSE 31

IsValidDate(y, m, d) == m \in 1..12 /\ d >= 1 /\ d <= DaysInMonth(y, m)

RECURSIVE DaysBeforeMonth(_, _)
DaysBeforeMonth(y, m) ==
  IF m <= 1 THEN 0 ELSE DaysBeforeMonth(y, m - 1) + DaysInMonth(y, m - 1)

DaysBeforeYear(y) ==
  (y - 1) * 365 + ((y - 1) \div 4) - ((y - 1) \div 100) + ((y - 1) \div 400)

\* date.toordinal(): 1 for 0001-01-01
Ordinal(y, m, d) == DaysBeforeYear(y) + DaysBeforeMonth(y, m) + d

\* date.weekday(): Monday is 0
Weekday(dt) == (Ordinal(dt.y, dt.mo, dt.d) + 6) % 7

DateTime(y, mo, d, h, mi, s, us) ==
  [y |-> y, mo |-> mo, d |-> d, h |-> h, mi |-> mi, s |-> s, us |-> us,
   aware |-> FALSE, off |-> 0]

NextDay(dt) ==
  IF dt.d < DaysInMonth(dt.y, dt.mo) THEN [dt EXCEPT !.d = dt.d + 1]
  ELSE IF dt.mo < 12 THEN [dt EXCEPT !.mo = dt.mo + 1, !.d = 1]
  ELSE [dt EXCEPT !.y = dt.y + 1, !.mo = 1, !.d = 1]

PrevDay(dt) ==
  IF dt.d > 1 THEN [dt EXCEPT !.d = dt.d - 1]
  ELSE IF dt.mo > 1 THEN [dt EXCEPT !.mo = dt.mo - 1, !.d = DaysInMonth(dt.y, dt.mo - 1)]
  ELSE [dt EXCEPT !.y = dt.y - 1, !.mo = 12, !.d = 31]

\* dt + timedelta(days=n): the wall-clock fields move, tzinfo is kept
RECURSIVE AddDays(_, _)
AddDays(dt, n) ==
  IF n = 0 THEN dt
  ELSE IF n > 0 THEN AddDays(NextDay(dt), n - 1)
  ELSE AddDays(PrevDay(dt), n + 1)

\* mutant: a month taken as thirty days
AddThirtyDays(dt) == AddDays(dt, 30)

\* dt + relativedelta(months=1): the day is cut to the target month's length
AddOneMonth(dt) ==
  LET y == IF dt.mo = 12 THEN dt.y + 1 ELSE dt.y
      m == IF dt.mo = 12 THEN 1 ELSE dt.mo + 1
      d == IF dt.d > DaysInMonth(y, m) THEN DaysInMonth(y, m) ELSE dt.d
  IN [dt EXCEPT !.y = y, !.mo = m, !.d = d]

\* mutant: the event always lasts the default hour
AddDefaultDuration(dt, n) ==
  [AddDays(dt, (dt.h * 60 + dt.mi + 60) \div 1440)
     EXCEPT !.h = ((dt.h * 60 + dt.mi + 60) % 1440) \div 60, !.mi = (dt.mi + 60) % 60]

\* dt + timedelta(minutes=n): the wall-clock fields move, tzinfo is kept
AddMinutes(dt, n) ==
  [AddDays(dt, (dt.h * 60 + dt.mi + n) \div 1440)
     EXCEPT !.h = ((dt.h * 60 + dt.mi + n) % 1440) \div 60, !.mi = (dt.h * 60 + dt.mi + n) % 60]

\* dt + relativedelta(weekday=W(+1)): jumpdays = (7 - dt.weekday() + W) % 7
AddWeekday(dt, w) == AddDays(dt, (7 - Weekday(dt) + w) % 7)

\* tz.localize(naive): the offset is attached, the fields are kept
Localize(dt, off) == [dt EXCEPT !.aware = TRUE, !.off = off]

\* the instant of an aware datetime: <<UTC day, second of the day, microsecond>>
UtcKey(dt) ==
  LET secs == dt.h * 3600 + dt.mi * 60 + dt.s - dt.off * 3600
      ord == Ordinal(dt.y, dt.mo, dt.d)
  IN <<ord + (secs \div 86400), secs % 86400, dt.us>>

\* a < b for aware datetimes
Before(a, b) ==
  LET ka == UtcKey(a)
      kb == UtcKey(b)
  IN \/ ka[1] < kb[1]
     \/ ka[1] = kb[1] /\ ka[2] < kb[2]
     \/ ka[1] = kb[1] /\ ka[2] = kb[2] /\ ka[3] < kb[3]

\* (a - b).days for aware datetimes: the difference floored to whole days
DeltaDays(a, b) ==
  LET ka == UtcKey(a)
      kb == UtcKey(b)
      secs == (ka[1] - kb[1]) * 86400 + (ka[2] - kb[2])
              - (IF ka[3] < kb[3] THEN 1 ELSE 0)
  IN secs \div 86400

\* an instant given in UTC seen in the zone of offset off: datetime.now(tz)
InZone(utc, off) ==
  LET h == utc.h + off
      moved == IF h >= 24 THEN [NextDay(utc) EXCEPT !.h = h - 24]
               ELSE IF h < 0 THEN [PrevDay(utc) EXCEPT !.h = h + 24]
               ELSE [utc EXCEPT !.h = h]
  IN Localize(moved, off)

\* pytz.timezone("Etc/GMT<sign><mag>").utcoffset(): "Etc/GMT-5" is UTC+5
EtcOffset(zone) == IF zone.sign = "-" THEN zone.mag ELSE -zone.mag

(***************************************************************************)
(* More str primitives, used on the phrase.                                *)
(***************************************************************************)
\* str.replace(pat, ""): every non-overlapping occurrence, left to right
RECURSIVE RemoveAll(_, _)
RemoveAll(s, pat) ==
  IF Len(s) < Len(pat) THEN s
  ELSE IF SubSeq(s, 1, Len(pat)) = pat THEN RemoveAll(SliceFrom(s, Len(pat)), pat)
  ELSE <<s[1]>> \o RemoveAll(SliceFrom(s, 1), pat)

\* str.split(' ', 1)[1]: what follows the first space
AfterFirstSpace(s) == SliceFrom(s, IndexOf(s, " "))

\* the words of s between single spaces
RECURSIVE Words(_)
Words(s) ==
  IF s = <<>> THEN <<>>
  ELSE IF IndexOf(s, " ") = 0 THEN <<s>>
  ELSE IF IndexOf(s, " ") = 1 THEN Words(SliceFrom(s, 1))
  ELSE <<SubSeq(s, 1, IndexOf(s, " ") - 1)>> \o Words(SliceFrom(s, IndexOf(s, " ")))

AllDigits(s) == s # <<>> /\ \A i \in 1..Len(s) : IsDigit(s[i])

S_for == <<"f","o","r"," ">>
S_next == <<"n","e","x","t"," ">>
S_tomorrow == <<"t","o","m","o","r","r","o","w">>
S_next_week == <<"n","e","x","t"," ","w","e","e","k">>
S_next_month == <<"n","e","x","t"," ","m","o","n","t","h">>

\* weekday_map: the names in the order MO .. SU (weekday 0 .. 6)
WeekdayNames == <<<<"m","o","n","d","a","y">>,
                  <<"t","u","e","s","d","a","y">>,
                  <<"w","e","d","n","e","s","d","a","y">>,
                  <<"t","h","u","r","s","d","a","y">>,
                  <<"f","r","i","d","a","y">>,
                  <<"s","a","t","u","r","d","a","y">>,
                  <<"s","u","n","d","a","y">>>>

IsWeekdayName(w) == \E i \in 1..7 : WeekdayNames[i] = w
WeekdayOf(w) == (CHOOSE i \in 1..7 : WeekdayNames[i] = w) - 1

(***************************************************************************)
(* dateutil.parser.parse(s, fuzzy), for the shapes of text offered here:   *)
(* words that are a numeric month/day ("12/25"), an ISO date               *)
(* ("2024-03-15"), a time with an optional whole-hour UTC offset ("10:30", *)
(* "10:30+03:00"), a month name, a day number or a weekday (its name or    *)
(* the first three letters of it).  Fields the text does not give come     *)
(* from the default, which is today's date on the wall clock at midnight;  *)
(* a weekday with no day of the month moves the date to that weekday, on   *)
(* or after it.  A word of no such shape is skipped when fuzzy and is an   *)
(* error otherwise; so is a text with no date or time in it, or a date     *)
(* that does not exist.                                                    *)
(***************************************************************************)
MonthNames == <<<<"j","a","n","u","a","r","y">>,
                <<"f","e","b","r","u","a","r","y">>,
                <<"m","a","r","c","h">>,
                <<"a","p","r","i","l">>,
                <<"m","a","y">>,
                <<"j","u","n","e">>,
                <<"j","u","l","y">>,
                <<"a","u","g","u","s","t">>,
                <<"s","e","p","t","e","m","b","e","r">>,
                <<"o","c","t","o","b","e","r">>,
                <<"n","o","v","e","m","b","e","r">>,
                <<"d","e","c","e","m","b","e","r">>>>

IsMonthName(w) == \E i \in 1..12 : MonthNames[i] = w
MonthOf(w) == CHOOSE i \in 1..12 : MonthNames[i] = w

IsMonthDay(w) ==
  LET k == IndexOf(w, "/")
  IN /\ k > 1 /\ k < Len(w)
     /\ AllDigits(SubSeq(w, 1, k - 1)) /\ k - 1 <= 2
     /\ AllDigits(SliceFrom(w, k)) /\ Len(w) - k <= 2

IsIsoDate(w) ==
  /\ Len(w) = 10
  /\ w[5] = "-" /\ w[8] = "-"
  /\ AllDigits(SubSeq(w, 1, 4)) /\ AllDigits(SubSeq(w, 6, 7)) /\ AllDigits(SubSeq(w, 9, 10))

IsClock(w) ==
  /\ Len(w) \in {5, 11}
  /\ AllDigits(SubSeq(w, 1, 2)) /\ w[3] = ":" /\ AllDigits(SubSeq(w, 4, 5))
  /\ Len(w) = 11 =>
       /\ w[6] \in {"+", "-"}
       /\ AllDigits(SubSeq(w, 7, 8)) /\ SubSeq(w, 9, 11) = <<":","0","0">>

IsDayNumber(w) == AllDigits(w) /\ Len(w) <= 2

IsWeekdayWord(w) == \E i \in 1..7 : w \in {WeekdayNames[i], SubSeq(WeekdayNames[i], 1, 3)}
WeekdayWordOf(w) ==
  (CHOOSE i \in 1..7 : w \in {WeekdayNames[i], SubSeq(WeekdayNames[i], 1, 3)}) - 1

IsDateWord(w) ==
  \/ IsMonthDay(w) \/ IsIsoDate(w) \/ IsClock(w) \/ IsMonthName(w) \/ IsDayNumber(w)
  \/ IsWeekdayWord(w)

ParserError == [ok |-> FALSE, dt |-> DateTime(1, 1, 1, 0, 0, 0, 0)]

\* one word's fields written over the datetime built so far
ApplyWord(dt, w) ==
  IF IsIsoDate(w)
  THEN [dt EXCEPT !.y = DigitsValue(SubSeq(w, 1, 4)), !.mo = DigitsValue(SubSeq(w, 6, 7)),
                  !.d = DigitsValue(SubSeq(w, 9, 10))]
  ELSE IF IsMonthDay(w)
  THEN [dt EXCEPT !.mo = DigitsValue(SubSeq(w, 1, IndexOf(w, "/") - 1)),
                  !.d = DigitsValue(SliceFrom(w, IndexOf(w, "/")))]
  ELSE IF IsMonthName(w) THEN [dt EXCEPT !.mo = MonthOf(w)]
  ELSE IF IsDayNumber(w) THEN [dt EXCEPT !.d = DigitsValue(w)]
  ELSE IF IsClock(w)
  THEN LET t == [dt EXCEPT !.h = DigitsValue(SubSeq(w, 1, 2)),
                           !.mi = DigitsValue(SubSeq(w, 4, 5))]
       IN IF Len(w) = 11
          THEN [t EXCEPT !.aware = TRUE,
                         !.off = (IF w[6] = "-" THEN -1 ELSE 1) * DigitsValue(SubSeq(w, 7, 8))]
          ELSE t
  ELSE dt

RECURSIVE ApplyWords(_, _)
ApplyWords(dt, ws) ==
  IF ws = <<>> THEN dt ELSE ApplyWords(ApplyWord(dt, Head(ws)), Tail(ws))

\* no word of the text gives the day of the month
NoDayGiven(known) ==
  \A i \in 1..Len(known) :
    ~(IsIsoDate(known[i]) \/ IsMonthDay(known[i]) \/ IsDayNumber(known[i]))

\* a default day past the end of the month the text names is cut to its length
ClampDay(built, noDay) ==
  IF noDay /\ built.mo \in 1..12 /\ built.d > DaysInMonth(built.y, built.mo)
  THEN [built EXCEPT !.d = DaysInMonth(built.y, built.mo)] ELSE built

\* the datetime built from the words, or the error
DateutilResult(ws, known, weekdays, dt, noDay, fuzzy) ==
  IF known = <<>> THEN ParserError
  ELSE IF ~fuzzy /\ Len(known) # Len(ws) THEN ParserError
  ELSE IF ~IsValidDate(dt.y, dt.mo, dt.d) \/ dt.h > 23 \/ dt.mi > 59 THEN ParserError
  ELSE IF noDay /\ weekdays # <<>>
  THEN [ok |-> TRUE, dt |-> AddWeekday(dt, WeekdayWordOf(weekdays[Len(weekdays)]))]
  ELSE [ok |-> TRUE, dt |-> dt]

DateutilWords(ws, known, today, fuzzy) ==
  DateutilResult(ws, known, SelectSeq(known, IsWeekdayWord),
                 ClampDay(ApplyWords(DateTime(today.y, today.mo, today.d, 0, 0, 0, 0), known),
                          NoDayGiven(known)),
                 NoDayGiven(known), fuzzy)

DateutilParse(s, today, fuzzy) ==
  DateutilWords(Words(s), SelectSeq(Words(s), IsDateWord), today, fuzzy)

(***************************************************************************)
(* parse_relative_date(relative_date, timezone_str, start_hour, base_time). *)
(* start_hour is [t, n] (t = "none" for None), base_time is [t, dt]; now   *)
(* is the wall clock (UTC, which is also taken as the system's local time) *)
(* the call reads.  The outcome is the datetime returned or the ValueError *)
(* raised, with kind naming its message and inner the wrapped message:     *)
(*   MissingHour     "Meeting time (start_hour) must be explicitly ..."    *)
(*   InvalidTimezone "Invalid timezone format: <inner>"                    *)
(*   CouldNotParse   "Could not parse relative date: <text>. Error: ..."   *)
(* where text is the value of relative_date the message quotes.            *)
(***************************************************************************)
NoHour == [t |-> "none", n |-> 0]
HourOf(n) == [t |-> "int", n |-> n]
NoDt == DateTime(1, 1, 1, 0, 0, 0, 0)
NoBase == [t |-> "none", dt |-> NoDt]
BaseOf(dt) == [t |-> "dt", dt |-> dt]

Fail(kind, inner) ==
  [ok |-> FALSE, kind |-> kind, inner |-> inner, text |-> <<>>, dt |-> NoDt]
Resolved(dt) == [ok |-> TRUE, kind |-> "", inner |-> "", text |-> <<>>, dt |-> dt]

\* relative_date.lower().strip().replace('for ', '')
CleanPhrase(s) == RemoveAll(Strip(Lower(s)), S_for)

\* base_time is None -> datetime.now(tz); naive -> tz.localize(base_time)
BaseTime(base, off, now) ==
  IF base.t = "none" THEN InZone(now, off)
  ELSE IF ~base.dt.aware THEN Localize(base.dt, off)
  ELSE base.dt

\* target_date < base_time or (target_date - base_time).days < 7
TooClose(target, base) == Before(target, base) \/ DeltaDays(target, base) < TooCloseDays

\* the "next <month>/<day>" branch, given what parse(date_part) returned:
\* this year's occurrence, or next year's when that is past or too close
NextOccurrence(parsed, base, off) ==
  IF ~parsed.ok THEN Fail("CouldNotParse", "CouldNotParseDate")
  ELSE IF ~IsValidDate(base.y, parsed.dt.mo, parsed.dt.d)
  THEN Fail("CouldNotParse", "CouldNotParseDate")
  ELSE IF TooClose(Localize(DateTime(base.y, parsed.dt.mo, parsed.dt.d, 0, 0, 0, 0), off), base)
       THEN (IF ~IsValidDate(base.y + 1, parsed.dt.mo, parsed.dt.d)
             THEN Fail("CouldNotParse", "CouldNotParseDate")
             ELSE Resolved(Localize(DateTime(base.y + 1, parsed.dt.mo, parsed.dt.d, 0, 0, 0, 0),
                                    off)))
  ELSE Resolved(Localize(DateTime(base.y, parsed.dt.mo, parsed.dt.d, 0, 0, 0, 0), off))

\* the "next <month>/<day>" branch: the inner try block
NextDate(date_part, base, off, now) ==
  NextOccurrence(DateutilParse(date_part, now, FALSE), base, off)

\* the free-form branch, given what parse(relative_date, fuzzy=True) returned
LocalizeParsed(parsed, off) ==
  IF ~parsed.ok THEN Fail("CouldNotParse", "ParserError")
  ELSE IF ~parsed.dt.aware THEN Resolved(Localize(parsed.dt, off))
  ELSE Resolved(parsed.dt)

\* the free-form branch: parse(relative_date, fuzzy=True)
FreeForm(phrase, off, now) == LocalizeParsed(DateutilParse(phrase, now, TRUE), off)

\* the if / elif chain choosing the day
Classify(phrase, base, off, now) ==
  IF phrase = S_tomorrow THEN Resolved(AddDays(base, 1))
  ELSE IF phrase = S_next_week THEN Resolved(AddDays(base, 7))
  ELSE IF phrase = S_next_month THEN Resolved(AddOneMonth(base))
  ELSE IF StartsWith(phrase, S_next)
       THEN (IF IsWeekdayName(AfterFirstSpace(phrase))
             THEN Resolved(AddWeekday(base, WeekdayOf(AfterFirstSpace(phrase))))
             ELSE NextDate(AfterFirstSpace(phrase), base, off, now))
  ELSE FreeForm(phrase, off, now)

\* mutant: only the hour is replaced
SetHourOnly(r, hour) ==
  IF ~r.ok THEN r
  ELSE IF hour < 0 \/ hour > 23 THEN Fail("CouldNotParse", "HourOutOfRange")
  ELSE Resolved([r.dt EXCEPT !.h = hour])

\* result.replace(hour=start_hour, minute=0, second=0, microsecond=0)
SetHour(r, hour) ==
  IF ~r.ok THEN r
  ELSE IF hour < 0 \/ hour > 23 THEN Fail("CouldNotParse", "HourOutOfRange")
  ELSE Resolved([r.dt EXCEPT !.h = hour, !.mi = 0, !.s = 0, !.us = 0])

\* except ValueError as e: the message quotes relative_date, which by then
\* holds the cleaned phrase
Reraise(r, phrase) == IF r.ok THEN r ELSE [r EXCEPT !.text = phrase]

\* the function from the cleaned phrase on, in the zone of offset off
ResolveAt(phrase, off, hour, base_time, now) ==
  Reraise(SetHour(Classify(phrase, BaseTime(base_time, off, now), off, now), hour), phrase)

\* the function from the validated zone on
ResolveIn(zone, relative_date, hour, base_time, now) ==
  IF ~zone.ok THEN Fail("InvalidTimezone", zone.kind)
  ELSE ResolveAt(CleanPhrase(relative_date), EtcOffset(zone), hour, base_time, now)

\* mutant: the zone is validated before the hour is looked at
ResolveInZoneFirst(zone, relative_date, start_hour, base_time, now) ==
  IF ~zone.ok THEN Fail("InvalidTimezone", zone.kind)
  ELSE IF start_hour.t = "none" THEN Fail("MissingHour", "")
  ELSE ResolveAt(CleanPhrase(relative_date), EtcOffset(zone), start_hour.n, base_time, now)

parse_relative_date_zone_first(relative_date, timezone_str, start_hour, base_time, now) ==
  ResolveInZoneFirst(validate_gmt_timezone(timezone_str), relative_date, start_hour,
                     base_time, now)

parse_relative_date(relative_date, timezone_str, start_hour, base_time, now) ==
  IF start_hour.t = "none" THEN Fail("MissingHour", "")
  ELSE ResolveIn(validate_gmt_timezone(timezone_str), relative_date, start_hour.n,
                 base_time, now)

(***************************************************************************)
(* Zone strings offered to the validator.                                  *)
(***************************************************************************)
TailAlphabet == {"0", "1", "2", "3", "5", ".", "+", "-", "e", "_", " "}

RECURSIVE Tails(_)
Tails(n) == IF n = 0 THEN {<<>>}
            ELSE Tails(n - 1) \cup
                 {Append(t, c) : t \in {u \in Tails(n - 1) : Len(u) = n - 1}, c \in TailAlphabet}

\* "GMT" + sign + N
GmtN(sign, n) ==
  S_GMT \o <<sign>> \o
  (IF n >= 10 THEN <<DigitCs[(n \div 10) + 1], DigitCs[(n % 10) + 1]>>
   ELSE <<DigitCs[n + 1]>>)

OtherZoneStrings ==
  { <<>>, <<" ">>, <<"E","S","T">>, <<"U","T","C","+","5">>, <<"G","M","T">>,
    <<"G","M","T","5">>, <<"G","M","T","5","5">>, <<"g","m","t","+","5">>,
    <<" ","G","m","t","-","3"," ">>, <<"G","M","T"," ","+","5">>,
    <<"G","M","T","+","1","2",".","9">>, <<"G","M","T","+","1","3",".","0">>,
    <<"G","M","T","-","0",".","5">>, <<"G","M","T","+","-","0",".","5">>,
    <<"G","M","T","+","i","n","f">>, <<"G","M","T","-","n","a","n">>,
    <<"G","M","T","+","f","i","v","e">>, <<"G","M","T","+","1","_","0">>,
    <<"G","M","T","+","1","e","1">>, <<"G","M","T","+","0",".","5">>,
    <<"G","M","T","+","5",".","0">> }

ZoneStrings ==
  OtherZoneStrings
  \cup {GmtN(sg, n) : sg \in {"+", "-"}, n \in 0..(MaxOffset + 2)}
  \cup {S_GMT \o <<sg>> \o t : sg \in {"+", "-"}, t \in Tails(MaxTail)}

ZoneArgs == {PyNone, PyOther} \cup {PyStr(s) : s \in ZoneStrings}

(***************************************************************************)
(* Arguments offered to parse_relative_date.                               *)
(***************************************************************************)
Phrases ==
  { <<"t","o","m","o","r","r","o","w">>,
    <<"T","o","m","o","r","r","o","w"," ">>,
    <<"f","o","r"," ","t","o","m","o","r","r","o","w">>,
    <<"n","e","x","t"," ","w","e","e","k">>,
    <<"n","e","x","t"," ","m","o","n","t","h">>,
    <<"N","e","x","t"," ","M","o","n","d","a","y">>,
    <<"n","e","x","t"," ","m","o","n","d","a","y">>,
    <<"n","e","x","t"," ","t","u","e","s","d","a","y">>,
    <<"n","e","x","t"," ","w","e","d","n","e","s","d","a","y">>,
    <<"n","e","x","t"," ","t","h","u","r","s","d","a","y">>,
    <<"n","e","x","t"," ","f","r","i","d","a","y">>,
    <<"n","e","x","t"," ","s","a","t","u","r","d","a","y">>,
    <<"n","e","x","t"," ","s","u","n","d","a","y">>,
    <<"n","e","x","t"," ","1","2","/","2","5">>,
    <<"n","e","x","t"," ","0","2","/","2","9">>,
    <<"n","e","x","t"," ","0","1","/","0","5">>,
    <<"n","e","x","t"," ","s","o","m","e","d","a","y">>,
    <<"2","0","2","4","-","0","3","-","1","5">>,
    <<"m","a","r","c","h"," ","1","5">>,
    <<"o","n"," ","2","0","2","4","-","0","3","-","1","5"," ","1","0",":","3","0","+","0","3",":","0","0">>,
    <<"d","e","c","e","m","b","e","r">>,
    <<"s","o","o","n">>,
    <<"S","o","o","n"," ">>,
    <<"n","e","x","t"," ","m","o","n">>,
    <<"n","e","x","t"," ","f","o","r"," ","w","e","e","k">> }

\* "next " + the name of weekday w (0 .. 6)
NextWeekdayPhrase(w) == S_next \o WeekdayNames[w + 1]

RefYears == 2024..(2024 + MaxRefYears)
RefMonths == {1, 2, 12}
RefDates == {<<y, m, d>> \in RefYears \X RefMonths \X (1..31) : IsValidDate(y, m, d)}
\* the time of day a reference carries: midnight, or 13:45:30.250000
RefTimes == {<<0, 0, 0, 0>>, <<13, 45, 30, 250000>>}

NaiveRefs == {DateTime(c[1], c[2], c[3], t[1], t[2], t[3], t[4]) : c \in RefDates, t \in RefTimes}
\* references that carry UTC as their own zone
AwareRefs == {Localize(dt, 0) : dt \in NaiveRefs}
Refs == {NoBase} \cup {BaseOf(dt) : dt \in NaiveRefs \cup AwareRefs}
EdgeRefs == {NoBase, BaseOf(DateTime(2024, 12, 20, 13, 45, 30, 250000)),
             BaseOf(Localize(DateTime(2024, 3, 14, 23, 30, 0, 0), 0))}

\* the wall clock (UTC) a call may read
Clocks == {DateTime(2024, 2, 28, 22, 0, 0, 0), DateTime(2026, 12, 31, 21, 30, 10, 500000)}

Hours == {NoHour, HourOf(0), HourOf(9), HourOf(24)}
ResolveZones == {PyNone, PyStr(<<>>), PyStr(<<"E","S","T">>), PyStr(GmtN("+", 13)),
                 PyStr(<<"g","m","t","+","5">>), PyStr(GmtN("-", 3)), PyStr(GmtN("+", 0)),
                 PyStr(<<"G","M","T","+","i","n","f">>)}
MainZone == PyStr(GmtN("+", 5))

\* every reference at the main zone and hour, every zone and hour at a few references
ResolveCalls ==
  {[phrase |-> p, tz |-> MainZone, hour |-> HourOf(9), base |-> b, now |-> c] :
     p \in Phrases, b \in Refs, c \in Clocks}
  \cup
  {[phrase |-> p, tz |-> z, hour |-> h, base |-> b, now |-> c] :
     p \in Phrases, z \in ResolveZones \cup {MainZone}, h \in Hours, b \in EdgeRefs, c \in Clocks}

(***************************************************************************)
(* The state machine.                                                      *)
(***************************************************************************)
NoArgs == [phrase |-> <<>>, tz |-> PyNone, hour |-> NoHour, base |-> NoBase, now |-> NoDt]
NoRet == [ok |-> FALSE, kind |-> ""]

NoFrame == [pc |-> "idle", event_timezone |-> PyNone, start |-> <<>>, end |-> <<>>]
NoCalendar == [calls |-> <<>>, inserts |-> 0, lists |-> 0]

Init ==
  /\ op = "idle" /\ args = NoArgs /\ ret = NoRet
  /\ frame = NoFrame /\ calendar = NoCalendar

CallValidate ==
  /\ op = "idle"
  /\ \E tz \in ZoneArgs :
       /\ args' = [NoArgs EXCEPT !.tz = tz]
       /\ ret' = validate_gmt_timezone(tz)
  /\ op' = "validate"
  /\ UNCHANGED <<frame, calendar>>

CallResolve ==
  /\ op = "idle"
  /\ \E a \in ResolveCalls :
       /\ args' = a
       /\ ret' = parse_relative_date(a.phrase, a.tz, a.hour, a.base, a.now)
  /\ op' = "resolve"
  /\ UNCHANGED <<frame, calendar>>

Return ==
  /\ op \in {"validate", "resolve"}
  /\ op' = "idle" /\ args' = NoArgs /\ ret' = NoRet
  /\ UNCHANGED <<frame, calendar>>

Next == CallValidate \/ CallResolve \/ Return

Spec == Init /\ [][Next]_vars

(***************************************************************************)
(* The tools.  create_event resolves the start, then hands the event to    *)
(* create_calendar_event; list_events resolves the day and lists it.  The  *)
(* system's UTC offset (sysoff, in minutes) is an input of the call, and   *)
(* so is what the Google side does: credentials may be missing and the     *)
(* request may fail.                                                       *)
(***************************************************************************)
\* f"GMT{sign}{abs_offset}": offset is the system offset in hours, sign is
\* '+' if offset > 0 else '-', abs_offset is abs(int(offset))
SystemTimezone(sysoff) ==
  GmtN(IF sysoff > 0 THEN "+" ELSE "-", (IF sysoff < 0 THEN -sysoff ELSE sysoff) \div 60)

\* if not timezone: None and "" both take the system's zone
EventTimezone(timezone, sysoff) ==
  IF timezone.t = "none" \/ (timezone.t = "str" /\ timezone.s = <<>>)
  THEN PyStr(SystemTimezone(sysoff)) ELSE timezone

\* n in decimal, zero-padded to width characters
Pad(n, width) == [i \in 1..width |-> DigitCs[((n \div Pow10(width - i)) % 10) + 1]]

\* datetime.isoformat(): "YYYY-MM-DDTHH:MM:SS[.ffffff][+HH:MM]"
IsoFormat(dt) ==
  Pad(dt.y, 4) \o <<"-">> \o Pad(dt.mo, 2) \o <<"-">> \o Pad(dt.d, 2) \o <<"T">> \o
  Pad(dt.h, 2) \o <<":">> \o Pad(dt.mi, 2) \o <<":">> \o Pad(dt.s, 2) \o
  (IF dt.us = 0 THEN <<>> ELSE <<".">> \o Pad(dt.us, 6)) \o
  (IF ~dt.aware THEN <<>>
   ELSE <<IF dt.off < 0 THEN "-" ELSE "+">> \o
        Pad(IF dt.off < 0 THEN -dt.off ELSE dt.off, 2) \o <<":","0","0">>)

\* what the Google side does with one request
Outcomes == {"no_credentials", "insert_failed", "inserted"}

\* the dict create_calendar_event returns (absent keys read as None), and
\* whether the insert request was sent
Created == [success |-> TRUE, event_link |-> "link", inserted |-> TRUE]
NotCreated(inserted) == [success |-> FALSE, event_link |-> "None", inserted |-> inserted]

create_calendar_event(timezone, sysoff, outcome) ==
  LET tz == IF timezone.t = "none" THEN PyStr(SystemTimezone(sysoff)) ELSE timezone
  IN IF ~validate_gmt_timezone(tz).ok THEN NotCreated(FALSE)
     ELSE IF outcome = "no_credentials" THEN NotCreated(FALSE)
     ELSE IF outcome = "insert_failed" THEN NotCreated(TRUE)
     ELSE Created

\* CalendarEventResult of create_event's except ValueError
ParseFailed == [success |-> FALSE, event_link |-> "None", conference_link |-> "None"]

EventPhrases ==
  { <<"t","o","m","o","r","r","o","w">>,
    <<"N","e","x","t"," ","M","o","n","d","a","y">>,
    <<"n","e","x","t"," ","1","2","/","2","5">>,
    <<"s","o","o","n">> }
EventZones == {MainZone, PyStr(GmtN("-", 3)), PyStr(<<"E","S","T">>)}
SystemOffsets == {m \in (-MaxBehindUtc)..MaxAheadOfUtc : m % 30 = 0}
Durations == {DefaultDuration, 90}

\* without a timezone at every system offset, with one at two of them
ZoneAndSystem ==
  ({PyNone, PyStr(<<>>)} \X SystemOffsets) \cup (EventZones \X {0, 330})

CreateEventCalls ==
  {[phrase |-> p, tz |-> zs[1], hour |-> h, base |-> NoBase, now |-> c,
    duration |-> d, sysoff |-> zs[2]] :
     p \in EventPhrases, zs \in ZoneAndSystem, h \in {NoHour, HourOf(9), HourOf(24)},
     c \in {DateTime(2024, 2, 28, 22, 0, 0, 0)}, d \in Durations}

ListEventsCalls ==
  {[phrase |-> p, tz |-> zs[1], hour |-> HourOf(0), base |-> NoBase, now |-> c,
    sysoff |-> zs[2]] :
     p \in EventPhrases, zs \in ZoneAndSystem, c \in Clocks}

CallCreateEvent ==
  /\ op = "idle"
  /\ \E a \in CreateEventCalls : args' = a
  /\ op' = "create_event"
  /\ frame' = [NoFrame EXCEPT !.pc = "parse"]
  /\ UNCHANGED <<ret, calendar>>

\* the try block of create_event; each local is bound to its value once
CreateEventParse ==
  /\ op = "create_event" /\ frame.pc = "parse"
  /\ \E event_timezone \in {EventTimezone(args.tz, args.sysoff)} :
     \E start_datetime \in {parse_relative_date(args.phrase, event_timezone, args.hour,
                                                NoBase, args.now)} :
       IF start_datetime.ok
       THEN \E end_datetime \in {AddMinutes(start_datetime.dt, args.duration)} :
              /\ frame' = [pc |-> "calendar", event_timezone |-> event_timezone,
                           start |-> IsoFormat(start_datetime.dt),
                           end |-> IsoFormat(end_datetime)]
              /\ ret' = ret
       ELSE /\ frame' = [NoFrame EXCEPT !.pc = "return", !.event_timezone = event_timezone]
            /\ ret' = ParseFailed
  /\ UNCHANGED <<op, args, calendar>>

\* the call of create_calendar_event and the result built from what it returns
CreateCalendarEvent ==
  /\ op = "create_event" /\ frame.pc = "calendar"
  /\ \E outcome \in Outcomes :
     \E result \in {create_calendar_event(frame.event_timezone, args.sysoff, outcome)} :
          /\ calendar' = [calendar EXCEPT
                            !.calls = Append(@, [start |-> frame.start, end |-> frame.end,
                                                 timezone |-> frame.event_timezone]),
                            !.inserts = @ + (IF result.inserted THEN 1 ELSE 0)]
          /\ ret' = [success |-> result.success, event_link |-> result.event_link,
                     conference_link |-> "None"]
  /\ frame' = [frame EXCEPT !.pc = "return"]
  /\ UNCHANGED <<op, args>>

\* list_events, one step: the day is resolved at hour 0 and listed up to
\* 23:59:59; any exception gives success False and no events
ListEvents ==
  /\ op = "idle"
  /\ \E a \in ListEventsCalls, outcome \in {"listed", "list_failed"} :
     \E event_timezone \in {EventTimezone(a.tz, a.sysoff)} :
     \E start_datetime \in {parse_relative_date(a.phrase, event_timezone, HourOf(0),
                                                NoBase, a.now)} :
     \E resolved \in {validate_gmt_timezone(event_timezone).ok /\ start_datetime.ok} :
          /\ args' = a
          /\ frame' = IF resolved
                      THEN [pc |-> "return", event_timezone |-> event_timezone,
                            start |-> IsoFormat(start_datetime.dt),
                            end |-> IsoFormat([start_datetime.dt
                                                 EXCEPT !.h = 23, !.mi = 59, !.s = 59])]
                      ELSE [NoFrame EXCEPT !.pc = "return", !.event_timezone = event_timezone]
          /\ calendar' = [calendar EXCEPT !.lists = IF resolved THEN 1 ELSE 0]
          /\ ret' = [success |-> resolved /\ outcome = "listed",
                     events |-> IF resolved /\ outcome = "listed" THEN "events" ELSE "empty"]
  /\ op' = "list_events"

ReturnEvent ==
  /\ op \in {"create_event", "list_events"} /\ frame.pc = "return"
  /\ op' = "idle" /\ args' = NoArgs /\ ret' = NoRet
  /\ frame' = NoFrame /\ calendar' = NoCalendar

NextEvents ==
  CallCreateEvent \/ CreateEventParse \/ CreateCalendarEvent \/ ListEvents \/ ReturnEvent

SpecEvents == Init /\ [][NextEvents]_vars

(***************************************************************************)
(* What the properties below speak of.                                     *)
(***************************************************************************)
S_next_12_25 == <<"n","e","x","t"," ","1","2","/","2","5">>
S_next_02_29 == <<"n","e","x","t"," ","0","2","/","2","9">>
S_next_01_05 == <<"n","e","x","t"," ","0","1","/","0","5">>
S_freeform_tz == <<"o","n"," ","2","0","2","4","-","0","3","-","1","5"," ","1","0",":","3","0","+","0","3",":","0","0">>
S_EST == <<"E","S","T">>

\* the phrases "next <month>/<day>" offered, with their month and day
MonthDayPhrases == {<<S_next_12_25, 12, 25>>, <<S_next_02_29, 2, 29>>, <<S_next_01_05, 1, 5>>}

\* the offset the user means by "GMT+N" / "GMT-N": +N and -N hours
IsUserZone(tz, o) ==
  /\ tz.t = "str"
  /\ Upper(tz.s) = GmtN(IF o < 0 THEN "-" ELSE "+", IF o < 0 THEN -o ELSE o)
       \/ (o = 0 /\ Upper(tz.s) = GmtN("-", 0))
UserOffset(tz) == CHOOSE o \in (-MaxOffset)..MaxOffset : IsUserZone(tz, o)

\* the reference of a call as a datetime in its own zone
Reference(a) ==
  IF a.base.t = "none" THEN InZone(a.now, UserOffset(a.tz))
  ELSE IF a.base.dt.aware THEN a.base.dt
  ELSE Localize(a.base.dt, UserOffset(a.tz))

SameDate(a, b) == a.y = b.y /\ a.mo = b.mo /\ a.d = b.d
IsDate(dt, y, m, d) == dt.y = y /\ dt.mo = m /\ dt.d = d
Midnight(y, m, d, off) == Localize(DateTime(y, m, d, 0, 0, 0, 0), off)

Resolving == op = "resolve"
\* a call with an hour of the day and a zone "GMT+N" / "GMT-N", N in 0..12
WellFormed ==
  /\ op = "resolve"
  /\ args.hour.t = "int" /\ args.hour.n \in 0..23
  /\ \E o \in (-MaxOffset)..MaxOffset : IsUserZone(args.tz, o)
Validating == op = "validate"

(***************************************************************************)
(* C1: "next <weekday>" returns the first date strictly after the          *)
(* reference's date that falls on that weekday: 1 to 7 days later, and 7   *)
(* days later when the reference itself falls on it.                       *)
(***************************************************************************)
C1_NextWeekdayStrictlyAfter ==
  \A w \in 0..6 :
    (args.phrase = NextWeekdayPhrase(w) /\ WellFormed)
    => /\ ret.ok
       /\ Weekday(ret.dt) = w
       /\ \E n \in 1..7 : SameDate(ret.dt, AddDays(Reference(args), n))

(***************************************************************************)
(* C2: for N in 0..12 and both signs, "GMT" + s + N is accepted and the    *)
(* canonical zone has the opposite sign and the same magnitude.            *)
(***************************************************************************)
C2_SignFlippedMagnitudeKept ==
  \A sg \in {"+", "-"}, n \in 0..12 :
    (Validating /\ args.tz = PyStr(GmtN(sg, n)))
    => ret.ok /\ ret.mag = n /\ ret.sign # sg /\ ret.sign \in {"+", "-"}

C2_Witness ==
  Validating /\ args.tz = PyStr(GmtN("-", 12)) /\ ret.ok /\ ret.sign = "+" /\ ret.mag = 12

(***************************************************************************)
(* C3: with hour = None the call fails with MissingHour whatever the       *)
(* phrase and the zone string are.                                         *)
(***************************************************************************)
C3_MissingHourFirst ==
  (Resolving /\ args.hour = NoHour) => ~ret.ok /\ ret.kind = "MissingHour"

C3_Witness ==
  Resolving /\ args.hour = NoHour /\ args.tz = PyStr(S_EST) /\ args.phrase = S_tomorrow
    /\ ~ret.ok /\ ret.kind = "MissingHour"

(***************************************************************************)
(* C4: "next <month>/<day>" with the reference in year Y returns year Y's  *)
(* occurrence when it is at least 7 days after the reference, and year     *)
(* Y+1's occurrence when year Y's is before the reference or less than 7   *)
(* days after it.                                                          *)
(***************************************************************************)
C4_MonthDayRollsWithinSevenDays ==
  \A p \in MonthDayPhrases :
    (args.phrase = p[1] /\ WellFormed
       /\ IsValidDate(Reference(args).y, p[2], p[3]))
    => LET ref == Reference(args)
           thisYear == Midnight(ref.y, p[2], p[3], UserOffset(args.tz))
       IN IF ~Before(thisYear, ref) /\ DeltaDays(thisYear, ref) >= 7
          THEN ret.ok /\ IsDate(ret.dt, ref.y, p[2], p[3])
          ELSE ret.ok /\ IsDate(ret.dt, ref.y + 1, p[2], p[3])

(***************************************************************************)
(* C5: a returned timestamp has the caller's hour and zero minute, second  *)
(* and microsecond, whatever the phrase and the reference.                 *)
(***************************************************************************)
C5_HourExactRestZero ==
  (Resolving /\ ret.ok)
  => ret.dt.h = args.hour.n /\ ret.dt.mi = 0 /\ ret.dt.s = 0 /\ ret.dt.us = 0

C5_Witness ==
  Resolving /\ ret.ok /\ args.phrase = S_tomorrow /\ args.base.t = "dt"
    /\ args.base.dt.h = 13 /\ args.base.dt.mi = 45 /\ args.base.dt.us = 250000
    /\ ret.dt.h = 9 /\ ret.dt.mi = 0

(***************************************************************************)
(* C6: a returned timestamp is in the requested zone: its UTC offset is +N *)
(* hours for "GMT+N" and -N hours for "GMT-N".                             *)
(***************************************************************************)
C6_ResultInRequestedZone ==
  (Resolving /\ ret.ok) => ret.dt.aware /\ ret.dt.off = UserOffset(args.tz)

(***************************************************************************)
(* C7: a rejected zone string is reported with the error kind of the first *)
(* step it fails: "" InvalidFormat, "EST" MissingPrefix, "GMT5" and        *)
(* "GMT55" MissingSign, "GMT+13" OffsetOutOfRange.                         *)
(***************************************************************************)
C7_DistinctZoneErrors ==
  Validating =>
    /\ args.tz = PyStr(<<>>) => ~ret.ok /\ ret.kind = "InvalidFormat"
    /\ args.tz = PyStr(S_EST) => ~ret.ok /\ ret.kind = "MissingPrefix"
    /\ args.tz \in {PyStr(<<"G","M","T","5">>), PyStr(<<"G","M","T","5","5">>)}
         => ~ret.ok /\ ret.kind = "MissingSign"
    /\ args.tz = PyStr(GmtN("+", 13)) => ~ret.ok /\ ret.kind = "OffsetOutOfRange"

(***************************************************************************)
(* C8: the validator accepts exactly the strings that, case-folded and     *)
(* trimmed, are "GMT" SIGN DIGIT+ ["." DIGIT+] with the integer part in    *)
(* 0..12, and returns that integer part as the magnitude.                  *)
(***************************************************************************)
GrammarIntPart(s) ==
  LET u == SliceFrom(Strip(Upper(s)), 4)
  IN IF IndexOf(u, ".") = 0 THEN u ELSE SubSeq(u, 1, IndexOf(u, ".") - 1)

InZoneGrammar(s) ==
  LET t == Strip(Upper(s))
      u == SliceFrom(t, 4)
      dot == IndexOf(u, ".")
  IN /\ StartsWith(t, S_GMT) /\ Len(t) >= 5
     /\ t[4] \in {"+", "-"}
     /\ AllDigits(GrammarIntPart(s))
     /\ dot # 0 => AllDigits(SliceFrom(u, dot))
     /\ DigitsValue(GrammarIntPart(s)) \in 0..12

C8_AcceptsExactlyTheGrammar ==
  (Validating /\ args.tz.t = "str")
  => /\ ret.ok <=> InZoneGrammar(args.tz.s)
     /\ ret.ok => ret.mag = DigitsValue(GrammarIntPart(args.tz.s))

(***************************************************************************)
(* C9: "next month" returns the reference's date one calendar month later  *)
(* (December to January of the next year), the day cut to the length of    *)
(* the target month.                                                       *)
(***************************************************************************)
C9_NextMonthClamped ==
  (args.phrase = S_next_month /\ WellFormed)
  => LET ref == Reference(args)
         y == IF ref.mo = 12 THEN ref.y + 1 ELSE ref.y
         m == IF ref.mo = 12 THEN 1 ELSE ref.mo + 1
         last == CHOOSE d \in 28..31 : IsValidDate(y, m, d) /\ ~IsValidDate(y, m, d + 1)
     IN ret.ok /\ IsDate(ret.dt, y, m, IF ref.d > last THEN last ELSE ref.d)

C9_Witness ==
  Resolving /\ args.phrase = S_next_month /\ args.base.t = "dt"
    /\ IsDate(args.base.dt, 2024, 1, 31) /\ ret.ok /\ IsDate(ret.dt, 2024, 2, 29)

(***************************************************************************)
(* C10: "tomorrow" returns the reference's date plus 1 day and "next week" *)
(* plus 7 days, at hour:00:00 in the zone.                                 *)
(***************************************************************************)
C10_TomorrowAndNextWeek ==
  \A c \in {<<S_tomorrow, 1>>, <<S_next_week, 7>>} :
    (args.phrase = c[1] /\ WellFormed)
    => /\ ret.ok
       /\ SameDate(ret.dt, AddDays(Reference(args), c[2]))
       /\ ret.dt.h = args.hour.n /\ ret.dt.mi = 0 /\ ret.dt.s = 0 /\ ret.dt.us = 0
       /\ ret.dt.aware /\ ret.dt.off = UserOffset(args.tz)

(***************************************************************************)
(* C11: round trip.  invert maps a canonical zone back to the user-facing  *)
(* "GMT+N" / "GMT-N" by flipping the sign.  As stated:                      *)
(* normalize(invert(normalize(x))) = x for every valid zone string x.      *)
(* As amended: normalize(invert(normalize(x))) = normalize(x).             *)
(***************************************************************************)
Invert(zone) ==
  S_GMT \o <<IF zone.sign = "+" THEN "-" ELSE "+">> \o SliceFrom(EtcString(zone), 8)

C11_RoundTripGivesBackInput ==
  (Validating /\ ret.ok)
  => LET again == validate_gmt_timezone(PyStr(Invert(ret)))
     IN again.ok /\ EtcString(again) = args.tz.s

C11_RoundTripGivesBackCanonical ==
  (Validating /\ ret.ok) => validate_gmt_timezone(PyStr(Invert(ret))) = ret

C11_Witness ==
  /\ Validating /\ ret.ok
  /\ args.tz = PyStr(<<"G","M","T","+","5",".","0">>)
  /\ Invert(ret) = <<"G","M","T","+","5">>
  /\ validate_gmt_timezone(PyStr(Invert(ret))) = ret

(***************************************************************************)
(* C12: the phrase is classified case-insensitively and trimmed, and the   *)
(* only text removed is one leading "for ": a "for " anywhere else stays   *)
(* in the phrase that is classified.                                       *)
(***************************************************************************)
S_next_for_week == <<"n","e","x","t"," ","f","o","r"," ","w","e","e","k">>

\* the phrase lower-cased and trimmed, then without one leading "for "
LeadingForRemoved(s) ==
  IF StartsWith(Strip(Lower(s)), S_for) THEN SliceFrom(Strip(Lower(s)), 4)
  ELSE Strip(Lower(s))

C12_OnlyLeadingForRemoved ==
  (Resolving /\ WellFormed)
  => LET off == UserOffset(args.tz)
         expected == SetHour(Classify(LeadingForRemoved(args.phrase),
                                      BaseTime(args.base, off, args.now), off, args.now),
                             args.hour.n)
     IN ret.ok = expected.ok /\ ret.dt = expected.dt

(***************************************************************************)
(* C13: with an explicit reference the result is a function of (phrase,    *)
(* zone, hour, reference) alone: the same call made at any other           *)
(* wall-clock time returns the same result.                                *)
(***************************************************************************)
C13_ReferenceMakesResolvePure ==
  (Resolving /\ args.base.t = "dt")
  => \A clock \in Clocks :
       parse_relative_date(args.phrase, args.tz, args.hour, args.base, clock) = ret

(***************************************************************************)
(* C14: a failure caused by the phrase names its cause.  "next <token>"    *)
(* with a token that names a weekday but is no recognized weekday name     *)
(* fails with AmbiguousWeekdayName; any other phrase with no date in it    *)
(* fails with the could-not-parse error (UnparseableDate) quoting the      *)
(* phrase as the caller wrote it.  Neither returns a datetime.             *)
(***************************************************************************)
S_next_someday == <<"n","e","x","t"," ","s","o","m","e","d","a","y">>
S_next_mon == <<"n","e","x","t"," ","m","o","n">>
S_soon == <<"s","o","o","n">>
S_Soon_ == <<"S","o","o","n"," ">>

C14_PhraseErrorsNameTheirCause ==
  (Resolving /\ WellFormed)
  => /\ args.phrase \in {S_next_someday, S_next_mon}
          => ~ret.ok /\ ret.kind = "AmbiguousWeekdayName"
     /\ args.phrase \in {S_soon, S_Soon_}
          => ~ret.ok /\ ret.kind = "CouldNotParse" /\ ret.text = args.phrase

(***************************************************************************)
(* C15: in create_event the calendar is asked at most once per call and    *)
(* only after parse_relative_date has succeeded; when the hour is missing, *)
(* the timezone is invalid or the phrase cannot be parsed the call returns *)
(* success False with no links and the calendar is never asked; the end    *)
(* handed over is the resolved start plus duration_minutes.                *)
(***************************************************************************)
\* the fields an isoformat text carries, and the minutes from a to b on the
\* wall clock
IsoField(text, from, to) == DigitsValue(SubSeq(text, from, to))
IsoMinute(text) ==
  Ordinal(IsoField(text, 1, 4), IsoField(text, 6, 7), IsoField(text, 9, 10)) * 1440
  + IsoField(text, 12, 13) * 60 + IsoField(text, 15, 16)

Creating == op = "create_event"
StartOfEvent ==
  parse_relative_date(args.phrase, EventTimezone(args.tz, args.sysoff), args.hour,
                      NoBase, args.now)

C15_CalendarOnlyAfterParse ==
  Creating
  => /\ Len(calendar.calls) <= 1 /\ calendar.inserts <= Len(calendar.calls)
     /\ calendar.calls # <<>>
          => /\ StartOfEvent.ok
             /\ calendar.calls[1].start = IsoFormat(StartOfEvent.dt)
             /\ IsoMinute(calendar.calls[1].end) - IsoMinute(calendar.calls[1].start)
                  = args.duration
             /\ SliceFrom(calendar.calls[1].end, 16) = SliceFrom(calendar.calls[1].start, 16)
     /\ (~StartOfEvent.ok /\ frame.pc = "return")
          => /\ ret = ParseFailed
             /\ calendar = NoCalendar
     /\ (~StartOfEvent.ok) => frame.pc \in {"parse", "return"}

C15_Witness ==
  /\ Creating /\ frame.pc = "return"
  /\ args.duration = 90 /\ args.hour = HourOf(9) /\ args.tz = MainZone
  /\ args.phrase = <<"t","o","m","o","r","r","o","w">>
  /\ Len(calendar.calls) = 1 /\ calendar.inserts = 1 /\ ret.success
  /\ calendar.calls[1].start = <<"2","0","2","4","-","0","3","-","0","1","T","0","9",":","0","0",":","0","0","+","0","5",":","0","0">>
  /\ calendar.calls[1].end = <<"2","0","2","4","-","0","3","-","0","1","T","1","0",":","3","0",":","0","0","+","0","5",":","0","0">>

(***************************************************************************)
(* C16: when create_event or list_events is called without a timezone, the *)
(* "GMT+-N" string derived from the system's UTC offset passes             *)
(* validate_gmt_timezone and stands for exactly the system's offset, at    *)
(* every offset from UTC-12:00 to UTC+14:00, half hours included.          *)
(***************************************************************************)
C16_SystemZoneValidAndExact ==
  (op \in {"create_event", "list_events"} /\ args.tz = PyNone /\ frame.pc # "parse")
  => /\ validate_gmt_timezone(frame.event_timezone).ok
     /\ EtcOffset(validate_gmt_timezone(frame.event_timezone)) * 60 = args.sysoff

====
